---- MODULE Spec2Model ----
(***************************************************************************)
(* Model of backend/main.py, the FastAPI backend of IGsnitched.            *)
(*                                                                         *)
(* The backend keeps no state between requests: every handler is an async  *)
(* function without a suspension point (report_test_pdf awaits             *)
(* track_test_mode, which never yields), so requests are served one at a   *)
(* time.  pc is the position of the request being served; the random       *)
(* draws of a handler are separate steps of that request.                  *)
(*                                                                         *)
(* Text is a sequence of tokens: the literal pieces of the f-strings and   *)
(* the handles are tokens, str.join puts its separator token between the   *)
(* joined pieces.  Two texts of the model are equal exactly when the       *)
(* Python strings are, as long as no handle contains a separator, which    *)
(* holds of the sample handles.                                            *)
(*                                                                         *)
(* The list `history` of activity_history is kept as its length            *)
(* (history_len) and the dict appended last (entry): the iterations do not *)
(* read the list, and the entries of one response are the values entry     *)
(* takes while the request is served.                                      *)
(* datetime.utcnow().isoformat() is the opaque token UtcNow.               *)
(***************************************************************************)
EXTENDS Integers, Sequences, FiniteSets, TLC

\* ---------------------------------------------------------------- bounds

\* How many handles of each sample list the model draws from (the code's
\* lists hold six).
PoolSize == 4

\* random.randint(-20, 20) of the code is drawn from -MaxVariance..MaxVariance.
MaxVariance == 0

\* total_following of a snapshot handed to create_pdf directly (SpecRender)
\* is drawn from -MaxAbsTotal..MaxAbsTotal.
MaxAbsTotal == 12

\* ------------------------------------------------------ program constants

BaseFollowing == 400

MinSnapshots == 3

MaxSnapshots == 7

all_new_follows ==
    <<"kaykay_underscore", "fitnessbaddie24", "thirsttrapqueen",
      "gymbro69", "mysterymua", "chefchaos">>

all_unfollows ==
    <<"his_ex_gf", "nice_girl_101", "churchgirl97",
      "studybuddy", "workwife", "hometownbestie">>

Min(a, b) == IF a < b THEN a ELSE b

Max(a, b) == IF a > b THEN a ELSE b

sample_new_follows == SubSeq(all_new_follows, 1, Min(PoolSize, Len(all_new_follows)))

sample_unfollows == SubSeq(all_unfollows, 1, Min(PoolSize, Len(all_unfollows)))

\* The usernames a request may carry.
Usernames == {"test_user", "alice"}

UtcNow == "utcnow"

\* ------------------------------------------------------------------ text

Range(s) == {s[i] : i \in 1..Len(s)}

\* sep.join(parts), parts a sequence of texts
RECURSIVE Join(_, _)
Join(sep, parts) ==
    IF parts = <<>> THEN <<>>
    ELSE IF Len(parts) = 1 THEN parts[1]
    ELSE parts[1] \o <<sep>> \o Join(sep, Tail(parts))

\* a list of handles as a list of one-token texts
Texts(handles) == [i \in 1..Len(handles) |-> <<handles[i]>>]

DigitChars == <<"0", "1", "2", "3", "4", "5", "6", "7", "8", "9">>

RECURSIVE Digits(_)
Digits(n) ==
    IF n < 10 THEN <<DigitChars[n + 1]>>
    ELSE Digits(n \div 10) \o <<DigitChars[(n % 10) + 1]>>

\* str(n) of an int, as the f-string formats it
IntStr(n) == IF n < 0 THEN <<"-">> \o Digits(-n) ELSE Digits(n)

\* ---------------------------------------------------- generate_commentary

NewHead == "He's now following "

NewOneTail == ". Someone's feeling adventurous."

NewManyTail == ". Guess the DMs were empty."

UnfHead == "He unfollowed "

UnfOneTail == ". Pretending to be loyal now?"

UnfManyTail == ". Spring cleaning his feed, huh?"

NoActivity == "No new follows or unfollows. Brad must be asleep or plotting."

\* Python's order of the handle strings (sorted() of the two sample lists).
handle_order ==
    <<"chefchaos", "churchgirl97", "fitnessbaddie24", "gymbro69", "his_ex_gf",
      "hometownbestie", "kaykay_underscore", "mysterymua", "nice_girl_101",
      "studybuddy", "thirsttrapqueen", "workwife">>

\* sorted(handles), handles without repetition
SortHandles(handles) ==
    LET In(h) == h \in Range(handles) IN SelectSeq(handle_order, In)

\* Mutant: the plural list is sorted before it is joined.
new_remarks_sorted(new_follows) ==
    IF new_follows = <<>> THEN <<>>
    ELSE IF Len(new_follows) = 1
         THEN << <<NewHead, new_follows[1], NewOneTail>> >>
         ELSE << <<NewHead>> \o Join(", ", Texts(SortHandles(new_follows)))
                 \o <<NewManyTail>> >>

new_remarks(new_follows) ==
    IF new_follows = <<>> THEN <<>>
    ELSE IF Len(new_follows) = 1
         THEN << <<NewHead, new_follows[1], NewOneTail>> >>
         ELSE << <<NewHead>> \o Join(", ", Texts(new_follows)) \o <<NewManyTail>> >>

unf_remarks(unfollows) ==
    IF unfollows = <<>> THEN <<>>
    ELSE IF Len(unfollows) = 1
         THEN << <<UnfHead, unfollows[1], UnfOneTail>> >>
         ELSE << <<UnfHead>> \o Join(", ", Texts(unfollows)) \o <<UnfManyTail>> >>

\* Mutant: the fallback is appended whenever there is no new follow.
generate_commentary_fallback_on_no_follows(new_follows, unfollows) ==
    LET r == new_remarks(new_follows) \o unf_remarks(unfollows)
        remarks == IF new_follows = <<>> THEN r \o << <<NoActivity>> >> ELSE r
    IN  Join(" ", remarks)

\* Mutant: the unfollows remark is appended before the new-follows remark.
generate_commentary_unfollows_first(new_follows, unfollows) ==
    LET r == unf_remarks(unfollows) \o new_remarks(new_follows)
        remarks == IF r = <<>> THEN << <<NoActivity>> >> ELSE r
    IN  Join(" ", remarks)

generate_commentary(new_follows, unfollows) ==
    LET r == new_remarks(new_follows) \o unf_remarks(unfollows)
        remarks == IF r = <<>> THEN << <<NoActivity>> >> ELSE r
    IN  Join(" ", remarks)

\* ------------------------------------------------------------ create_pdf

Paragraph(text, style) == [text |-> text, style |-> style]

Spacer == [text |-> <<>>, style |-> "Spacer"]

ListText(handles) == IF handles # <<>> THEN Join(", ", Texts(handles)) ELSE <<"None">>

\* The story create_pdf hands to doc.build: the content of the document.
story_of(data) ==
    << Paragraph(<<"IGsnitched Activity Report">>, "Title"),
       Spacer,
       Paragraph(<<"Timestamp: ", data.timestamp>>, "Normal"),
       Paragraph(<<"Username: ", data.username>>, "Normal"),
       Paragraph(<<"Total Following: ">> \o IntStr(data.total_following), "Normal"),
       Paragraph(<<"New Follows: ">> \o ListText(data.new_follows), "Normal"),
       Paragraph(<<"Unfollows: ">> \o ListText(data.unfollows), "Normal"),
       Spacer,
       Paragraph(<<"Brad Mode Commentary:">>, "Heading2"),
       Paragraph(data.commentary, "Italic") >>

\* Mutant: the two lists are printed under each other's label.
create_pdf_swapped(data) ==
    story_of([data EXCEPT !.new_follows = data.unfollows,
                          !.unfollows = data.new_follows])

\* Mutant: a negative total_following is refused and no document is built.
create_pdf_validating(data) ==
    IF data.total_following < 0 THEN <<>> ELSE story_of(data)

\* doc.build(story); return temp_file.name: the document built, there being
\* no path that raises.
create_pdf(data) == story_of(data)

\* --------------------------------------------------------------- random

\* Mutant: up to the whole pool is drawn.
pick_counts_all(pool) == 0 .. Len(pool)

\* random.randint(0, max(1, len(pool) // 2))
pick_counts(pool) == 0 .. Max(1, Len(pool) \div 2)

\* Mutant: drawn with replacement (random.choices).
sample_with_replacement(pool, k) ==
    { [i \in 1..k |-> pool[f[i]]] : f \in [1..k -> 1..Len(pool)] }

\* random.sample(pool, k): the sequences of k different positions' handles
sample(pool, k) ==
    { [i \in 1..k |-> pool[f[i]]] :
        f \in { g \in [1..k -> 1..Len(pool)] :
                  \A i, j \in 1..k : i # j => g[i] # g[j] } }

\* random.sample(pool, k) if k else []
sample_or_empty(pool, k) == IF k # 0 THEN sample(pool, k) ELSE {<<>>}

\* 400 + random.randint(-20, 20)
total_followings == { BaseFollowing + d : d \in (0 - MaxVariance) .. MaxVariance }

\* ---------------------------------------------------------------- state

VARIABLES
    pc,             \* position of the request being served, "idle" between requests
    endpoint,       \* the endpoint of the request served last or being served
    username,       \* its username argument ("" when it has none)
    num_new,        \* locals of track_test_mode and of activity_history's loop body
    num_unf,
    new_follows,
    unfollows,
    report,         \* the dict track_test_mode returned (data of report_test_pdf)
    num_snapshots,  \* activity_history: the number of iterations drawn
    history_len,    \* activity_history: len(history)
    entry,          \* activity_history: the dict appended last
    prev_len,       \* length of the previous history response for the same username (0: none)
    story,          \* the document create_pdf built
    status,         \* HTTP status of the response, 0 while there is none
    observations    \* history variable: the reports track_test_mode has returned,
                    \* counted 0, 1, 2 (2: two or more)

vars == <<pc, endpoint, username, num_new, num_unf, new_follows, unfollows, report,
          num_snapshots, history_len, entry, prev_len, story, status, observations>>

NoReport == [absent |-> TRUE]

NoStory == <<>>

\* What a request finds when it starts: nothing of an earlier request is kept.
fresh_locals ==
    /\ observations' = observations
    /\ new_follows' = <<>>
    /\ unfollows' = <<>>
    /\ report' = NoReport
    /\ history_len' = 0
    /\ entry' = NoReport
    /\ story' = NoStory

Init ==
    /\ pc = "idle"
    /\ endpoint = "none"
    /\ username = ""
    /\ num_new = 0
    /\ num_unf = 0
    /\ new_follows = <<>>
    /\ unfollows = <<>>
    /\ report = NoReport
    /\ num_snapshots = 0
    /\ history_len = 0
    /\ entry = NoReport
    /\ prev_len = 0
    /\ story = NoStory
    /\ status = 0
    /\ observations = 0

\* ----------------------------------------------------------- POST /track

\* Mutant: the stub answers 200.
track_user_ok(u) ==
    /\ pc = "idle"
    /\ fresh_locals
    /\ endpoint' = "POST /track"
    /\ username' = u
    /\ num_new' = 0
    /\ num_unf' = 0
    /\ num_snapshots' = 0
    /\ prev_len' = 0
    /\ status' = 200
    /\ pc' = "idle"

\* raise HTTPException(status_code=501, ...)
track_user(u) ==
    /\ pc = "idle"
    /\ fresh_locals
    /\ endpoint' = "POST /track"
    /\ username' = u
    /\ num_new' = 0
    /\ num_unf' = 0
    /\ num_snapshots' = 0
    /\ prev_len' = 0
    /\ status' = 501
    /\ pc' = "idle"

\* ------------------------------------------------------- track_test_mode

\* The request starts.  GET /report/test/pdf starts the same way:
\* report_test_pdf calls track_test_mode first.
track_test_begin(ep) ==
    /\ pc = "idle"
    /\ fresh_locals
    /\ endpoint' = ep
    /\ username' = ""
    /\ num_snapshots' = 0
    /\ prev_len' = 0
    /\ status' = 0
    /\ num_new' = 0
    /\ num_unf' = 0
    /\ pc' = "tt_counts"

\* num_new = random.randint(...); num_unf = random.randint(...)
track_test_counts ==
    /\ pc = "tt_counts"
    /\ \E n \in pick_counts(sample_new_follows), m \in pick_counts(sample_unfollows) :
         /\ num_new' = n
         /\ num_unf' = m
    /\ pc' = "tt_new"
    /\ UNCHANGED <<endpoint, username, new_follows, unfollows, report,
                   num_snapshots, history_len, entry, prev_len, story, status, observations>>

track_test_new ==
    /\ pc = "tt_new"
    /\ new_follows' \in sample_or_empty(sample_new_follows, num_new)
    /\ pc' = "tt_unf"
    /\ UNCHANGED <<endpoint, username, num_new, num_unf, unfollows, report,
                   num_snapshots, history_len, entry, prev_len, story, status, observations>>

track_test_unf ==
    /\ pc = "tt_unf"
    /\ unfollows' \in sample_or_empty(sample_unfollows, num_unf)
    /\ pc' = "tt_report"
    /\ UNCHANGED <<endpoint, username, num_new, num_unf, new_follows, report,
                   num_snapshots, history_len, entry, prev_len, story, status, observations>>

make_report(total_following) ==
    [ timestamp |-> UtcNow,
      username |-> "test_user",
      new_follows |-> new_follows,
      unfollows |-> unfollows,
      total_following |-> total_following,
      commentary |-> generate_commentary(new_follows, unfollows) ]

\* total_following is drawn and the report is built and returned: to the
\* client of GET /track/test, or to report_test_pdf.
track_test_report ==
    /\ pc = "tt_report"
    /\ \E t \in total_followings : report' = make_report(t)
    /\ observations' = Min(observations + 1, 2)
    /\ IF endpoint = "GET /track/test"
       THEN status' = 200 /\ pc' = "idle"
       ELSE status' = status /\ pc' = "pdf"
    /\ UNCHANGED <<endpoint, username, num_new, num_unf, new_follows, unfollows,
                   num_snapshots, history_len, entry, prev_len, story>>

\* ------------------------------------------------------- report_test_pdf

\* pdf_path = create_pdf(data); return FileResponse(...)
report_test_pdf ==
    /\ pc = "pdf"
    /\ story' = create_pdf(report)
    /\ status' = 200
    /\ pc' = "idle"
    /\ UNCHANGED <<endpoint, username, num_new, num_unf, new_follows, unfollows,
                   report, num_snapshots, history_len, entry, prev_len, observations>>

\* ------------------------------------------------------ activity_history

\* Mutant: random.randint(0, 7).
activity_history_begin_any_length(u) ==
    /\ pc = "idle"
    /\ prev_len' = IF endpoint = "GET /activity-history" /\ username = u /\ status = 200
                   THEN history_len ELSE 0
    /\ fresh_locals
    /\ endpoint' = "GET /activity-history"
    /\ username' = u
    /\ num_new' = 0
    /\ num_unf' = 0
    /\ status' = 0
    /\ num_snapshots' \in 0 .. MaxSnapshots
    /\ pc' = "loop"

\* Mutant: history is a list of the module, kept from request to request.
activity_history_begin_keeps_history(u) ==
    /\ pc = "idle"
    /\ prev_len' = IF endpoint = "GET /activity-history" /\ username = u /\ status = 200
                   THEN history_len ELSE 0
    /\ UNCHANGED <<history_len, observations>>
    /\ new_follows' = <<>>
    /\ unfollows' = <<>>
    /\ report' = NoReport
    /\ entry' = NoReport
    /\ story' = NoStory
    /\ endpoint' = "GET /activity-history"
    /\ username' = u
    /\ num_new' = 0
    /\ num_unf' = 0
    /\ status' = 0
    /\ num_snapshots' \in MinSnapshots .. MaxSnapshots
    /\ pc' = "loop"

\* history = []; num_snapshots = random.randint(3, 7)
activity_history_begin(u) ==
    /\ pc = "idle"
    /\ prev_len' = IF endpoint = "GET /activity-history" /\ username = u /\ status = 200
                   THEN history_len ELSE 0
    /\ fresh_locals
    /\ endpoint' = "GET /activity-history"
    /\ username' = u
    /\ num_new' = 0
    /\ num_unf' = 0
    /\ status' = 0
    /\ num_snapshots' \in MinSnapshots .. MaxSnapshots
    /\ pc' = "loop"

\* for _ in range(num_snapshots): the next iteration starts
activity_history_next ==
    /\ pc = "loop"
    /\ history_len < num_snapshots
    /\ num_new' = 0
    /\ num_unf' = 0
    /\ new_follows' = <<>>
    /\ unfollows' = <<>>
    /\ entry' = NoReport
    /\ pc' = "h_counts"
    /\ UNCHANGED <<endpoint, username, report, num_snapshots, history_len,
                   prev_len, story, status, observations>>

\* num_new = random.randint(...); num_unf = random.randint(...)
activity_history_counts ==
    /\ pc = "h_counts"
    /\ \E n \in pick_counts(sample_new_follows), m \in pick_counts(sample_unfollows) :
         /\ num_new' = n
         /\ num_unf' = m
    /\ pc' = "h_new"
    /\ UNCHANGED <<endpoint, username, new_follows, unfollows, report,
                   num_snapshots, history_len, entry, prev_len, story, status, observations>>

activity_history_new ==
    /\ pc = "h_new"
    /\ new_follows' \in sample_or_empty(sample_new_follows, num_new)
    /\ pc' = "h_unf"
    /\ UNCHANGED <<endpoint, username, num_new, num_unf, unfollows, report,
                   num_snapshots, history_len, entry, prev_len, story, status, observations>>

activity_history_unf ==
    /\ pc = "h_unf"
    /\ unfollows' \in sample_or_empty(sample_unfollows, num_unf)
    /\ pc' = "h_append"
    /\ UNCHANGED <<endpoint, username, num_new, num_unf, new_follows, report,
                   num_snapshots, history_len, entry, prev_len, story, status, observations>>

make_entry(total_following) ==
    [ timestamp |-> UtcNow,
      new_follows |-> new_follows,
      unfollows |-> unfollows,
      total_following |-> total_following,
      commentary |-> generate_commentary(new_follows, unfollows) ]

\* total_following is drawn; history.append({...})
activity_history_append ==
    /\ pc = "h_append"
    /\ \E t \in total_followings : entry' = make_entry(t)
    /\ history_len' = history_len + 1
    /\ pc' = "loop"
    /\ UNCHANGED <<endpoint, username, num_new, num_unf, new_follows, unfollows,
                   report, num_snapshots, prev_len, story, status, observations>>

\* return {"username": username, "history": history}
activity_history_return ==
    /\ pc = "loop"
    /\ history_len >= num_snapshots
    /\ status' = 200
    /\ entry' = NoReport
    /\ pc' = "idle"
    /\ UNCHANGED <<endpoint, username, num_new, num_unf, new_follows, unfollows,
                   report, num_snapshots, history_len, prev_len, story, observations>>

\* ------------------------------------------------------- the program

Next ==
    \/ \E u \in Usernames : track_user(u)
    \/ track_test_begin("GET /track/test")
    \/ track_test_begin("GET /report/test/pdf")
    \/ track_test_counts
    \/ track_test_new
    \/ track_test_unf
    \/ track_test_report
    \/ report_test_pdf
    \/ \E u \in Usernames : activity_history_begin(u)
    \/ activity_history_next
    \/ activity_history_counts
    \/ activity_history_new
    \/ activity_history_unf
    \/ activity_history_append
    \/ activity_history_return

Spec == Init /\ [][Next]_vars

\* ------------------------------------------- create_pdf as a function

\* The snapshots create_pdf is applied to directly: any username, any
\* total_following of the bound (negative ones too), any two lists the
\* sampling can produce.
render_inputs ==
    { [ timestamp |-> UtcNow,
        username |-> u,
        new_follows |-> nf,
        unfollows |-> uf,
        total_following |-> t,
        commentary |-> generate_commentary(nf, uf) ] :
        u \in Usernames,
        t \in (0 - MaxAbsTotal) .. MaxAbsTotal,
        nf \in UNION { sample_or_empty(sample_new_follows, k) : k \in pick_counts(sample_new_follows) },
        uf \in UNION { sample_or_empty(sample_unfollows, k) : k \in pick_counts(sample_unfollows) } }

InitRender ==
    /\ pc = "render"
    /\ endpoint = "create_pdf"
    /\ username = ""
    /\ num_new = 0
    /\ num_unf = 0
    /\ new_follows = <<>>
    /\ unfollows = <<>>
    /\ report \in render_inputs
    /\ num_snapshots = 0
    /\ history_len = 0
    /\ entry = NoReport
    /\ prev_len = 0
    /\ story = NoStory
    /\ status = 0
    /\ observations = 0

\* story = [...]; doc.build(story); return temp_file.name
render ==
    /\ pc = "render"
    /\ story' = create_pdf(report)
    /\ pc' = "rendered"
    /\ UNCHANGED <<endpoint, username, num_new, num_unf, new_follows, unfollows,
                   report, num_snapshots, history_len, entry, prev_len, status, observations>>

NextRender == render

SpecRender == InitRender /\ [][NextRender]_vars

\* ================================================================ claims

\* The reports visible in a state: the dict track_test_mode returned (the
\* /track/test payload, the data of /report/test/pdf) and the entry
\* activity_history appended last.
Produced ==
    (IF report # NoReport THEN {report} ELSE {})
        \cup (IF entry # NoReport THEN {entry} ELSE {})

TrackTestDone == pc = "idle" /\ endpoint = "GET /track/test" /\ status = 200

PdfDone == pc = "idle" /\ endpoint = "GET /report/test/pdf" /\ status = 200

HistoryDone == pc = "idle" /\ endpoint = "GET /activity-history"

Handles == Range(all_new_follows) \cup Range(all_unfollows)

NoDuplicates(s) == \A i, j \in 1..Len(s) : i # j => s[i] # s[j]

Count(text, tok) == Cardinality({i \in 1..Len(text) : text[i] = tok})

Pos(text, tok) == CHOOSE i \in 1..Len(text) : text[i] = tok

\* the handles a text names between two of its tokens
Between(text, from, to) ==
    {text[i] : i \in (Pos(text, from) + 1) .. (Pos(text, to) - 1)} \ {", "}

IsHandle(tok) == tok \in Handles

\* the handles a text names, in the order it names them
HandlesNamed(text) == SelectSeq(text, IsHandle)

\* ---- C1

\* C1: the commentary is exactly the "no activity" sentence if and only if
\* both lists are empty, and with a list non-empty it contains no fallback
\* sentence.
C1_FallbackIffBothEmpty ==
    \A r \in Produced :
        /\ (r.commentary = <<NoActivity>>)
               <=> (r.new_follows = <<>> /\ r.unfollows = <<>>)
        /\ (r.new_follows # <<>> \/ r.unfollows # <<>>)
               => NoActivity \notin Range(r.commentary)

C1_Witness ==
    /\ TrackTestDone
    /\ report.new_follows = <<>>
    /\ report.unfollows = <<>>
    /\ report.commentary = <<NoActivity>>

\* ---- C2

\* one sentence of a commentary: none for an empty list, the singular form
\* naming the one handle, or the plural form listing every handle
SentenceByCardinality(text, handles, head, one_tail, many_tail) ==
    /\ Count(text, head) = (IF handles = <<>> THEN 0 ELSE 1)
    /\ Count(text, one_tail) = (IF Len(handles) = 1 THEN 1 ELSE 0)
    /\ Count(text, many_tail) = (IF Len(handles) >= 2 THEN 1 ELSE 0)
    /\ Len(handles) = 1 =>
           /\ Pos(text, one_tail) = Pos(text, head) + 2
           /\ text[Pos(text, head) + 1] = handles[1]
    /\ Len(handles) >= 2 =>
           /\ Pos(text, many_tail) = Pos(text, head) + 2 * Len(handles)
           /\ Between(text, head, many_tail) = Range(handles)

\* C2: at most one new-follows sentence and at most one unfollows sentence,
\* each chosen by the cardinality of its list (none, singular, plural); when
\* both are produced the new-follows sentence comes first and exactly one
\* space joins the two.
C2_SentencePerSetByCardinality ==
    \A r \in Produced :
        LET t == r.commentary IN
        /\ SentenceByCardinality(t, r.new_follows, NewHead, NewOneTail, NewManyTail)
        /\ SentenceByCardinality(t, r.unfollows, UnfHead, UnfOneTail, UnfManyTail)
        /\ Count(t, " ") = (IF r.new_follows # <<>> /\ r.unfollows # <<>> THEN 1 ELSE 0)
        /\ (r.new_follows # <<>> /\ r.unfollows # <<>>) =>
               /\ Pos(t, NewHead) = 1
               /\ t[Pos(t, UnfHead) - 1] = " "
               /\ t[Pos(t, UnfHead) - 2] \in {NewOneTail, NewManyTail}
               /\ t[Len(t)] \in {UnfOneTail, UnfManyTail}

C2_Witness ==
    /\ TrackTestDone
    /\ Len(report.new_follows) = 2
    /\ Len(report.unfollows) = 1
    /\ report.commentary[1] = NewHead
    /\ report.commentary[Len(report.commentary)] = UnfOneTail

\* ---- C3

\* C3 as claimed: the text depends only on which handles each list holds,
\* the lists being presented sorted: any input gives the text of its sorted
\* lists.
C3_Original_MembershipOnly ==
    \A r \in Produced :
        r.commentary = generate_commentary(SortHandles(r.new_follows),
                                           SortHandles(r.unfollows))

\* C3: the commentary names the handles in the order the two lists present
\* them, new_follows first and then unfollows, unsorted.
C3_HandlesInPresentedOrder ==
    \A r \in Produced : HandlesNamed(r.commentary) = r.new_follows \o r.unfollows

C3_Witness ==
    /\ TrackTestDone
    /\ Len(report.new_follows) = 2
    /\ report.new_follows # SortHandles(report.new_follows)
    /\ HandlesNamed(report.commentary) = report.new_follows \o report.unfollows

\* ---- C4

\* C4: a POST /track request is answered in one step with 501, whatever was
\* served before: it draws nothing, builds no report, no history entry and
\* no document.
C4_TrackAlways501 ==
    endpoint = "POST /track" =>
        /\ pc = "idle"
        /\ status = 501
        /\ report = NoReport
        /\ entry = NoReport
        /\ story = NoStory
        /\ new_follows = <<>>
        /\ unfollows = <<>>
        /\ history_len = 0

C4_Witness ==
    /\ endpoint = "POST /track"
    /\ username = "alice"
    /\ status = 501
    /\ observations = 2

\* ---- C5

\* The identities a report was ever made for: make_report names only
\* "test_user", and nothing is stored for any username.
Observed == {"test_user"}

\* C5 as claimed: the history of an identity never observed is empty.
C5_Original_EmptyHistory ==
    (HistoryDone /\ username \notin Observed) => (status = 200 /\ history_len = 0)

\* C5: the history of an identity never observed is answered without an
\* error and holds between 3 and 7 generated snapshots.
C5_SimulatedHistory ==
    (HistoryDone /\ username \notin Observed) =>
        (status = 200 /\ history_len >= 3 /\ history_len <= 7)

C5_Witness ==
    /\ HistoryDone
    /\ username = "alice"
    /\ observations = 0
    /\ status = 200
    /\ history_len = 3

\* ---- C6

EmptyDelta(r) == r.new_follows = <<>> /\ r.unfollows = <<>>

\* the first report track_test_mode returned
FirstReport == report # NoReport /\ observations = 1

\* entry 0 of the history being built
FirstEntry == entry # NoReport /\ history_len = 1

\* C6 as claimed: the first report and entry 0 of a history report nothing.
C6_Original_FirstIsBaseline ==
    /\ FirstReport => EmptyDelta(report)
    /\ FirstEntry => EmptyDelta(entry)

\* what the sampling allows a list to be: at most half the pool (at least
\* one), handles of the pool
DrawnFrom(handles, pool) ==
    /\ Len(handles) <= Max(1, Len(pool) \div 2)
    /\ Range(handles) \subseteq Range(pool)

\* C6: the first report and entry 0 of a history are drawn like any other:
\* each list holds up to half its sample list, handles of that list.
C6_FirstIsDrawnLikeAnyOther ==
    /\ FirstReport =>
           /\ DrawnFrom(report.new_follows, sample_new_follows)
           /\ DrawnFrom(report.unfollows, sample_unfollows)
    /\ FirstEntry =>
           /\ DrawnFrom(entry.new_follows, sample_new_follows)
           /\ DrawnFrom(entry.unfollows, sample_unfollows)

C6_Witness ==
    /\ TrackTestDone
    /\ FirstReport
    /\ report.new_follows # <<>>
    /\ report.unfollows # <<>>

\* ---- C7

\* C7: in every report new_follows and unfollows share no handle and neither
\* holds a handle twice.
C7_DisjointNoDuplicates ==
    \A r \in Produced :
        /\ Range(r.new_follows) \cap Range(r.unfollows) = {}
        /\ NoDuplicates(r.new_follows)
        /\ NoDuplicates(r.unfollows)

C7_Witness ==
    /\ PdfDone
    /\ story # NoStory
    /\ Len(report.new_follows) = 2
    /\ Len(report.unfollows) = 2

\* ---- C8

\* C8 as claimed: the earlier history response of an identity is a prefix of
\* the later one, so the later one is no shorter.
C8_Original_EarlierIsPrefix ==
    (HistoryDone /\ status = 200) => prev_len <= history_len

\* C8: a history is built anew by each read: the list starts empty whatever
\* an earlier read returned, and while the read is served it changes only
\* by one entry appended at its end.
C8_AppendOnlyWithinRead ==
    [][ /\ (pc = "idle" /\ pc' = "loop") => history_len' = 0
        /\ (pc # "idle" /\ endpoint = "GET /activity-history") =>
               \/ history_len' = history_len /\ (entry' = entry \/ entry' = NoReport)
               \/ history_len' = history_len + 1 /\ entry' # NoReport ]_vars

C8_Witness ==
    /\ HistoryDone
    /\ status = 200
    /\ prev_len > history_len

\* ---- C9

\* the tokens after the label of the story's line that starts with it
Field(st, label) ==
    LET i == CHOOSE k \in 1..Len(st) : st[k].text # <<>> /\ st[k].text[1] = label
    IN  Tail(st[i].text)

ParseList(toks) ==
    IF toks = <<"None">> THEN <<>>
    ELSE [i \in 1..((Len(toks) + 1) \div 2) |-> toks[2 * i - 1]]

DigitValue(c) == CHOOSE d \in 0..9 : DigitChars[d + 1] = c

RECURSIVE ParseNat(_)
ParseNat(toks) ==
    IF toks = <<>> THEN 0
    ELSE 10 * ParseNat(SubSeq(toks, 1, Len(toks) - 1)) + DigitValue(toks[Len(toks)])

ParseInt(toks) == IF toks[1] = "-" THEN 0 - ParseNat(Tail(toks)) ELSE ParseNat(toks)

SortedListText(handles) ==
    IF handles = <<>> THEN <<"None">> ELSE Join(", ", Texts(SortHandles(handles)))

\* C9 as claimed: the lines give identity and total_following, and each list
\* as the sorted comma-joined list of its handles, or None when empty.
C9_Original_SortedRoundTrip ==
    pc = "rendered" =>
        /\ Field(story, "Username: ") = <<report.username>>
        /\ ParseInt(Field(story, "Total Following: ")) = report.total_following
        /\ Field(story, "New Follows: ") = SortedListText(report.new_follows)
        /\ Field(story, "Unfollows: ") = SortedListText(report.unfollows)

\* C9: the lines give back identity, total_following and both lists, each
\* list comma-joined in the order the snapshot holds it (unsorted), with the
\* None marker exactly when the list is empty.
C9_RoundTripInListOrder ==
    pc = "rendered" =>
        /\ Field(story, "Username: ") = <<report.username>>
        /\ ParseInt(Field(story, "Total Following: ")) = report.total_following
        /\ ParseList(Field(story, "New Follows: ")) = report.new_follows
        /\ ParseList(Field(story, "Unfollows: ")) = report.unfollows
        /\ (Field(story, "New Follows: ") = <<"None">>) <=> (report.new_follows = <<>>)
        /\ (Field(story, "Unfollows: ") = <<"None">>) <=> (report.unfollows = <<>>)

C9_Witness ==
    /\ pc = "rendered"
    /\ Len(report.new_follows) = 2
    /\ report.new_follows # SortHandles(report.new_follows)
    /\ report.unfollows = <<>>
    /\ report.total_following = 10
    /\ Field(story, "New Follows: ") = <<report.new_follows[1], ", ", report.new_follows[2]>>
    /\ Field(story, "Unfollows: ") = <<"None">>

\* ---- C10

\* C10 as claimed: a snapshot with a negative total_following is refused and
\* no document is built for it.
C10_Original_NegativeTotalRefused ==
    (pc = "rendered" /\ report.total_following < 0) => story = NoStory

\* C10: a snapshot with a negative total_following is rendered like any
\* other: the document is built and its Total Following line shows the
\* negative number.
C10_NegativeTotalRendered ==
    (pc = "rendered" /\ report.total_following < 0) =>
        /\ story # NoStory
        /\ Head(Field(story, "Total Following: ")) = "-"
        /\ ParseNat(Tail(Field(story, "Total Following: "))) = 0 - report.total_following

C10_Witness ==
    /\ pc = "rendered"
    /\ report.total_following = -12
    /\ Field(story, "Total Following: ") = <<"-", "1", "2">>

====
